---- MODULE Spec2Model ----
(***************************************************************************)
(* MyHashMap<K, V> (src/include/MyHashMap/MyHashMap.h): a separate-chaining *)
(* hash map whose only public operation is insert.  Nodes live in a heap    *)
(* of addresses; m_buckets[i] and Node::next hold the address of the node   *)
(* they own (NULL when empty).  insert is modelled statement by statement.  *)
(***************************************************************************)
EXTENDS Integers, Sequences, FiniteSets, TLC

\* ---- bounds of the model ----
NumKeys == 3
NumValues == 2
MaxBuckets == 3
\* number of distinct keys of the scenario on a default-constructed table
ScenarioSize == 13

\* default argument of the constructor
DefaultBuckets == 16

Keys == 0 .. (NumKeys - 1)
Values == 1 .. NumValues
\* the scenario's keys: distinct, two of them share a bucket of the default table
ScenarioKeys == (0 .. (ScenarioSize - 2)) \cup {DefaultBuckets}
ScenarioValue(k) == (k % NumValues) + 1
AllKeys == Keys \cup ScenarioKeys
MaxKey == CHOOSE m \in AllKeys : \A k \in AllKeys : k <= m
\* the heap has room for more nodes than there are keys
Addrs == 1 .. (MaxKey + 2)

NULL == 0
Absent == 0

VARIABLES
    m_buckets,        \* std::vector<std::unique_ptr<Node>>: slot -> address
    m_size,           \* size_t m_size
    heap,             \* allocated Nodes: address -> [key, value, next]
    pc,               \* position of the (single) thread
    key, value,       \* arguments of the running / last insert
    index, current,   \* locals of insert
    new_node,         \* local unique_ptr<Node> of insert
    ret,              \* outcome of the last insert
    initial_buckets,  \* constructor argument
    pre,              \* history: the table when the running / last insert was called
    last              \* history: key -> value of its most recent completed insert

vars == <<m_buckets, m_size, heap, pc, key, value, index, current, new_node,
          ret, initial_buckets, pre, last>>

\* ---- the hash and the bucket index ----
\* std::hash of an integral key is the key itself
Hash(k) == k

get_bucket_index_OffByOne(k) == (Hash(k) + 1) % Len(m_buckets)

get_bucket_index(k) == Hash(k) % Len(m_buckets)

\* Node(const K &k, const V &v) : key(k), value(v), next(nullptr)
Node(k, v) == [key |-> k, value |-> v, next |-> NULL]

\* ---- chains ----
RECURSIVE ChainFrom(_, _, _)
ChainFrom(h, a, fuel) ==
    IF a = NULL \/ fuel = 0 \/ a \notin DOMAIN h THEN <<>>
    ELSE <<a>> \o ChainFrom(h, h[a].next, fuel - 1)

\* the addresses of the nodes owned, in order, through the handle a
Chain(h, a) == ChainFrom(h, a, Cardinality(DOMAIN h) + 1)

Range(s) == {s[i] : i \in 1 .. Len(s)}

\* the sequence of all entries reachable from the slots
RECURSIVE EntriesFrom(_, _, _)
EntriesFrom(b, h, i) ==
    IF i > Len(b) THEN <<>> ELSE Chain(h, b[i]) \o EntriesFrom(b, h, i + 1)

Entries(b, h) == EntriesFrom(b, h, 1)

\* the (key, value) pairs stored in the table
Pairs(b, h) == {<<h[Entries(b, h)[j]].key, h[Entries(b, h)[j]].value>> :
                   j \in 1 .. Len(Entries(b, h))}

KeysOf(b, h) == {p[1] : p \in Pairs(b, h)}

\* find(key), as the lookup of the design: scan the chain of the key's bucket
RECURSIVE FindFrom(_, _, _, _)
FindFrom(h, a, k, fuel) ==
    IF a = NULL \/ fuel = 0 \/ a \notin DOMAIN h THEN Absent
    ELSE IF h[a].key = k THEN h[a].value
    ELSE FindFrom(h, h[a].next, k, fuel - 1)

Find(k) == FindFrom(heap, m_buckets[get_bucket_index(k) + 1], k,
                    Cardinality(DOMAIN heap) + 1)

\* the address the allocator hands out: any free one
FreeAddrs == Addrs \ DOMAIN heap

NewAddr(k) == IF (k + 1) \in FreeAddrs THEN k + 1
              ELSE CHOOSE a \in FreeAddrs : \A b \in FreeAddrs : a <= b

Snapshot == [buckets |-> m_buckets, heap |-> heap, size |-> m_size]

\* ---- construction ----
\* explicit MyHashMap(size_t initial_buckets = 16) : m_size(0)
Construct(n) ==
    /\ initial_buckets = n
    /\ m_buckets = [i \in 1 .. n |-> NULL]
    /\ m_size = 0
    /\ heap = [a \in {} |-> Node(0, 1)]
    /\ pc = "idle"
    /\ key = 0 /\ value = 1
    /\ index = 0 /\ current = NULL /\ new_node = NULL
    /\ ret = "none"
    /\ pre = [buckets |-> [i \in 1 .. n |-> NULL],
              heap |-> [a \in {} |-> Node(0, 1)], size |-> 0]
    /\ last = [k \in AllKeys |-> Absent]

Init == \E n \in 0 .. MaxBuckets : Construct(n)

InitDefault == Construct(DefaultBuckets)

\* ---- insert(key, value), statement by statement ----
\* entry: index = get_bucket_index(key); current = m_buckets[index].get()
Call(k, v) ==
    /\ pc = "idle"
    /\ Len(m_buckets) > 0
    /\ key' = k /\ value' = v
    /\ index' = get_bucket_index(k) + 1
    /\ current' = m_buckets[get_bucket_index(k) + 1]
    /\ pre' = Snapshot
    /\ ret' = "none"
    /\ pc' = "loop"
    /\ UNCHANGED <<m_buckets, m_size, heap, new_node, initial_buckets, last>>

\* entry on a table without buckets: hash % 0 is undefined; the build either
\* traps on the division or reads slot 0 of an empty vector
CallNoBuckets(k, v) ==
    /\ pc = "idle"
    /\ Len(m_buckets) = 0
    /\ key' = k /\ value' = v
    /\ pre' = Snapshot
    /\ ret' \in {"SIGFPE", "SIGSEGV"}
    /\ pc' = "crashed"
    /\ UNCHANGED <<m_buckets, m_size, heap, index, current, new_node,
                   initial_buckets, last>>

LoopMatch_ReturnsTrue ==
    /\ pc = "loop"
    /\ current # NULL
    /\ heap[current].key = key
    /\ heap' = [heap EXCEPT ![current].value = value]
    /\ ret' = "true"
    /\ last' = [last EXCEPT ![key] = value]
    /\ index' = 0 /\ current' = NULL
    /\ pc' = "idle"
    /\ UNCHANGED <<m_buckets, m_size, key, value, new_node, initial_buckets, pre>>

LoopMatch_CountsUpdate ==
    /\ pc = "loop"
    /\ current # NULL
    /\ heap[current].key = key
    /\ heap' = [heap EXCEPT ![current].value = value]
    /\ m_size' = m_size + 1
    /\ ret' = "false"
    /\ last' = [last EXCEPT ![key] = value]
    /\ index' = 0 /\ current' = NULL
    /\ pc' = "idle"
    /\ UNCHANGED <<m_buckets, key, value, new_node, initial_buckets, pre>>

LoopMatch_OverwritesHead ==
    /\ pc = "loop"
    /\ current # NULL
    /\ heap[current].key = key
    /\ heap' = [heap EXCEPT ![m_buckets[index]].value = value]
    /\ ret' = "false"
    /\ last' = [last EXCEPT ![key] = value]
    /\ index' = 0 /\ current' = NULL
    /\ pc' = "idle"
    /\ UNCHANGED <<m_buckets, m_size, key, value, new_node, initial_buckets, pre>>

\* while (current != nullptr) { if (current->key == key) { current->value = value; return false; }
LoopMatch ==
    /\ pc = "loop"
    /\ current # NULL
    /\ heap[current].key = key
    /\ heap' = [heap EXCEPT ![current].value = value]
    /\ ret' = "false"
    /\ last' = [last EXCEPT ![key] = value]
    /\ index' = 0 /\ current' = NULL
    /\ pc' = "idle"
    /\ UNCHANGED <<m_buckets, m_size, key, value, new_node, initial_buckets, pre>>

LoopAdvance_HeadOnly ==
    /\ pc = "loop"
    /\ current # NULL
    /\ heap[current].key # key
    /\ current' = NULL
    /\ UNCHANGED <<m_buckets, m_size, heap, pc, key, value, index, new_node,
                   ret, initial_buckets, pre, last>>

\* current = current->next.get();
LoopAdvance ==
    /\ pc = "loop"
    /\ current # NULL
    /\ heap[current].key # key
    /\ current' = heap[current].next
    /\ UNCHANGED <<m_buckets, m_size, heap, pc, key, value, index, new_node,
                   ret, initial_buckets, pre, last>>

\* the loop ends without a match
LoopExit ==
    /\ pc = "loop"
    /\ current = NULL
    /\ pc' = "alloc"
    /\ UNCHANGED <<m_buckets, m_size, heap, key, value, index, current,
                   new_node, ret, initial_buckets, pre, last>>

\* auto new_node = std::make_unique<Node>(key, value);
AllocOk ==
    /\ pc = "alloc"
    /\ FreeAddrs # {}
    /\ new_node' = NewAddr(key)
    /\ heap' = [a \in DOMAIN heap \cup {NewAddr(key)} |->
                   IF a = NewAddr(key) THEN Node(key, value) ELSE heap[a]]
    /\ pc' = "link"
    /\ UNCHANGED <<m_buckets, m_size, key, value, index, current, ret,
                   initial_buckets, pre, last>>

AllocFail_CountedFirst ==
    /\ pc = "alloc"
    /\ m_size' = m_size + 1
    /\ ret' = "bad_alloc"
    /\ index' = 0 /\ current' = NULL
    /\ pc' = "idle"
    /\ UNCHANGED <<m_buckets, heap, key, value, new_node,
                   initial_buckets, pre, last>>

\* std::make_unique throws std::bad_alloc, which leaves insert
AllocFail ==
    /\ pc = "alloc"
    /\ ret' = "bad_alloc"
    /\ index' = 0 /\ current' = NULL
    /\ pc' = "idle"
    /\ UNCHANGED <<m_buckets, m_size, heap, key, value, new_node,
                   initial_buckets, pre, last>>

Link_DropsChain ==
    /\ pc = "link"
    /\ heap' = [heap EXCEPT ![new_node].next = NULL]
    /\ m_buckets' = [m_buckets EXCEPT ![index] = NULL]
    /\ pc' = "assign"
    /\ UNCHANGED <<m_size, key, value, index, current, new_node, ret,
                   initial_buckets, pre, last>>

Link_Copies ==
    /\ pc = "link"
    /\ heap' = [heap EXCEPT ![new_node].next = m_buckets[index]]
    /\ pc' = "assign"
    /\ UNCHANGED <<m_buckets, m_size, key, value, index, current, new_node, ret,
                   initial_buckets, pre, last>>

\* new_node->next = std::move(m_buckets[index]);
Link ==
    /\ pc = "link"
    /\ heap' = [heap EXCEPT ![new_node].next = m_buckets[index]]
    /\ m_buckets' = [m_buckets EXCEPT ![index] = NULL]
    /\ pc' = "assign"
    /\ UNCHANGED <<m_size, key, value, index, current, new_node, ret,
                   initial_buckets, pre, last>>

Assign_FirstSlot ==
    /\ pc = "assign"
    /\ m_buckets' = [m_buckets EXCEPT ![1] = new_node]
    /\ new_node' = NULL
    /\ pc' = "inc"
    /\ UNCHANGED <<m_size, heap, key, value, index, current, ret,
                   initial_buckets, pre, last>>

\* m_buckets[index] = std::move(new_node);
Assign ==
    /\ pc = "assign"
    /\ m_buckets' = [m_buckets EXCEPT ![index] = new_node]
    /\ new_node' = NULL
    /\ pc' = "inc"
    /\ UNCHANGED <<m_size, heap, key, value, index, current, ret,
                   initial_buckets, pre, last>>

Inc_Grows ==
    /\ pc = "inc"
    /\ m_size' = m_size + 1
    /\ m_buckets' = IF 4 * (m_size + 1) > 3 * Len(m_buckets)
                    THEN m_buckets \o [i \in 1 .. Len(m_buckets) |-> NULL]
                    ELSE m_buckets
    /\ ret' = "true"
    /\ last' = [last EXCEPT ![key] = value]
    /\ index' = 0 /\ current' = NULL
    /\ pc' = "idle"
    /\ UNCHANGED <<heap, key, value, new_node, initial_buckets, pre>>

\* m_size++; return true;
Inc ==
    /\ pc = "inc"
    /\ m_size' = m_size + 1
    /\ ret' = "true"
    /\ last' = [last EXCEPT ![key] = value]
    /\ index' = 0 /\ current' = NULL
    /\ pc' = "idle"
    /\ UNCHANGED <<m_buckets, heap, key, value, new_node, initial_buckets, pre>>

Steps == LoopMatch \/ LoopAdvance \/ LoopExit \/ AllocOk \/ AllocFail
         \/ Link \/ Assign \/ Inc

Next ==
    \/ \E k \in Keys, v \in Values : Call(k, v)
    \/ \E k \in Keys, v \in Values : CallNoBuckets(k, v)
    \/ Steps

Spec == Init /\ [][Next]_vars

\* a default-constructed table that receives the scenario's keys
NextDefault ==
    \/ \E k \in ScenarioKeys : Call(k, ScenarioValue(k))
    \/ Steps

SpecDefault == InitDefault /\ [][NextDefault]_vars

TypeOK ==
    /\ m_size \in Nat
    /\ pc \in {"idle", "loop", "alloc", "link", "assign", "inc", "crashed"}
    /\ DOMAIN heap \subseteq Addrs
    /\ \A i \in 1 .. Len(m_buckets) : m_buckets[i] \in DOMAIN heap \cup {NULL}

\* ---- properties ----
Returned == pc = "idle" /\ ret \in {"true", "false"}

\* no insert is between its first and its last update of the table
Quiescent == pc \in {"idle", "loop", "alloc", "crashed"}

InsertedKeys == {k \in AllKeys : last[k] # Absent}

EntryKey(j) == heap[Entries(m_buckets, heap)[j]].key

\* C1: an insert that returns has returned true exactly when no entry with
\* its key was in the table at the call; when it returned false the table
\* holds an entry with that key and every such entry has the new value.
C1_InsertResult ==
    Returned =>
        /\ (ret = "true") <=> (key \notin KeysOf(pre.buckets, pre.heap))
        /\ (ret = "false") <=> (key \in KeysOf(pre.buckets, pre.heap))
        /\ ret = "false" =>
              /\ key \in KeysOf(m_buckets, heap)
              /\ \A p \in Pairs(m_buckets, heap) : p[1] = key => p[2] = value

C1_Witness ==
    /\ Returned /\ ret = "false"
    /\ <<key, value>> \in Pairs(m_buckets, heap)
    /\ <<key, value>> \notin Pairs(pre.buckets, pre.heap)
    /\ m_size >= 2

\* C2: between inserts, find(k) is the value of the most recent completed
\* insert(k, _) for every inserted key and absent for every other key.
C2_LastWriteWins ==
    (pc = "idle" /\ Len(m_buckets) >= 1) =>
        \A k \in AllKeys : Find(k) = last[k]

C2_Witness ==
    /\ pc = "idle" /\ ret = "false"
    /\ Find(key) = value
    /\ <<key, value>> \notin Pairs(pre.buckets, pre.heap)
    /\ \E k \in Keys : last[k] = Absent /\ Find(k) = Absent
    /\ \E i \in 1 .. Len(m_buckets) : Len(Chain(heap, m_buckets[i])) >= 2

\* C3: outside the update sequence of an insert, m_size is the number of
\* entries reachable from the slots and the number of distinct keys inserted.
C3_SizeIsEntryCount ==
    Quiescent =>
        /\ m_size = Len(Entries(m_buckets, heap))
        /\ m_size = Cardinality(InsertedKeys)

C3_Witness ==
    /\ pc = "idle" /\ ret = "false"
    /\ m_size = 2
    /\ Len(Entries(m_buckets, heap)) = 2

\* C4: no two entries of the table, nor two live nodes, have equal keys.
C4_UniqueKeys ==
    /\ \A i, j \in 1 .. Len(Entries(m_buckets, heap)) :
          i # j => EntryKey(i) # EntryKey(j)
    /\ \A a, b \in DOMAIN heap : a # b => heap[a].key # heap[b].key

C4_Witness ==
    /\ pc = "idle"
    /\ m_size >= 3
    /\ \E i \in 1 .. Len(m_buckets) : Len(Chain(heap, m_buckets[i])) >= 2
    /\ \E i, j \in 1 .. Len(m_buckets) :
          i # j /\ m_buckets[i] # NULL /\ m_buckets[j] # NULL

\* C5: every entry reachable from slot i has a key whose hash modulo the
\* number of slots is i.
C5_BucketIndexConsistent ==
    \A i \in 1 .. Len(m_buckets) :
        \A a \in Range(Chain(heap, m_buckets[i])) :
            Hash(heap[a].key) % Len(m_buckets) = i - 1

C5_Witness ==
    /\ pc = "idle"
    /\ Len(m_buckets) >= 2
    /\ \E i \in 1 .. Len(m_buckets) : Len(Chain(heap, m_buckets[i])) >= 2
    /\ \E i \in 2 .. Len(m_buckets) : m_buckets[i] # NULL

LoadFactorExceeded == 4 * m_size > 3 * Len(pre.buckets)

AllInsertedFindable ==
    \A k \in InsertedKeys : Find(k) = last[k]

\* C6 (as claimed): when an insert of a new key returns with size / capacity
\* above 0.75, the table has more slots than at the call and every inserted
\* key is found with its value.
C6_RehashOnLoad ==
    (Returned /\ ret = "true" /\ LoadFactorExceeded) =>
        /\ Len(m_buckets) > Len(pre.buckets)
        /\ AllInsertedFindable

\* C6 (amended): when an insert of a new key returns with size / capacity
\* above 0.75, the table still has the slots it was constructed with (no
\* rehash) and every inserted key is found with its value.
C6_NoRehashOnLoad ==
    (Returned /\ ret = "true" /\ LoadFactorExceeded) =>
        /\ Len(m_buckets) = Len(pre.buckets)
        /\ Len(m_buckets) = initial_buckets
        /\ AllInsertedFindable

C6_Witness ==
    /\ Returned /\ ret = "true" /\ LoadFactorExceeded
    /\ m_size = 13
    /\ Cardinality(InsertedKeys) = 13
    /\ Len(m_buckets) = DefaultBuckets
    /\ \A k \in InsertedKeys : Find(k) = ScenarioValue(k)
    /\ \E i \in 1 .. Len(m_buckets) : Len(Chain(heap, m_buckets[i])) = 2

\* C7: the table has at least one slot in every reachable state.
C7_CapacityAtLeastOne == Len(m_buckets) >= 1

\* C10: when the allocation of the new entry fails, the slots, every node
\* and m_size are as they were at the call, and m_size is the entry count.
C10_AllocFailureLeavesTable ==
    (pc = "idle" /\ ret = "bad_alloc") =>
        /\ m_buckets = pre.buckets
        /\ heap = pre.heap
        /\ m_size = pre.size
        /\ new_node = NULL
        /\ m_size = Len(Entries(m_buckets, heap))

C10_Witness ==
    /\ pc = "idle" /\ ret = "bad_alloc"
    /\ key \notin KeysOf(m_buckets, heap)
    /\ m_size >= 2
    /\ m_buckets[get_bucket_index(key) + 1] # NULL

\* C11: every insert that returns leaves its (key, value) pair in the table,
\* and an insert of a pair the table already holds (as after a first insert
\* of that pair) returns false and leaves slots, nodes and m_size as they were.
C11_SecondInsertIdempotent ==
    Returned =>
        /\ <<key, value>> \in Pairs(m_buckets, heap)
        /\ <<key, value>> \in Pairs(pre.buckets, pre.heap) =>
              /\ ret = "false"
              /\ Snapshot = pre

C11_Witness ==
    /\ Returned /\ ret = "false"
    /\ <<key, value>> \in Pairs(pre.buckets, pre.heap)
    /\ Snapshot = pre
    /\ m_buckets[get_bucket_index(key) + 1] # NULL
    /\ heap[m_buckets[get_bucket_index(key) + 1]].key # key

\* C12: an insert on a key that is present changes nothing but the value of
\* the entry with that key: m_size, the slots, the set of nodes, and every
\* node's key and successor are as at the call, as is every other value.
C12_UpdateInPlace ==
    (Returned /\ key \in KeysOf(pre.buckets, pre.heap)) =>
        /\ m_size = pre.size
        /\ m_buckets = pre.buckets
        /\ Len(m_buckets) = Len(pre.buckets)
        /\ DOMAIN heap = DOMAIN pre.heap
        /\ KeysOf(m_buckets, heap) = KeysOf(pre.buckets, pre.heap)
        /\ \A a \in DOMAIN pre.heap :
              /\ heap[a].key = pre.heap[a].key
              /\ heap[a].next = pre.heap[a].next
              /\ heap[a].key # key => heap[a].value = pre.heap[a].value
              /\ heap[a].key = key => heap[a].value = value

C12_Witness ==
    /\ Returned /\ key \in KeysOf(pre.buckets, pre.heap)
    /\ <<key, value>> \notin Pairs(pre.buckets, pre.heap)
    /\ <<key, value>> \in Pairs(m_buckets, heap)
    /\ Len(Chain(heap, m_buckets[get_bucket_index(key) + 1])) >= 2
    /\ heap[m_buckets[get_bucket_index(key) + 1]].key # key

HomeSlot(k) == (Hash(k) % Len(pre.buckets)) + 1

\* C13: an insert of a key that is not present puts one new entry with the
\* key and value at the head of the chain of slot hash(key) mod capacity,
\* followed by that slot's former chain in its order; the other slots and
\* all former nodes are unchanged and m_size is one more.
C13_HeadInsertion ==
    (Returned /\ key \notin KeysOf(pre.buckets, pre.heap)) =>
        /\ ret = "true"
        /\ m_size = pre.size + 1
        /\ Len(m_buckets) = Len(pre.buckets)
        /\ m_buckets[HomeSlot(key)] \in DOMAIN heap \ DOMAIN pre.heap
        /\ DOMAIN heap = DOMAIN pre.heap \cup {m_buckets[HomeSlot(key)]}
        /\ heap[m_buckets[HomeSlot(key)]].key = key
        /\ heap[m_buckets[HomeSlot(key)]].value = value
        /\ Chain(heap, m_buckets[HomeSlot(key)]) =
              <<m_buckets[HomeSlot(key)]>>
                 \o Chain(pre.heap, pre.buckets[HomeSlot(key)])
        /\ \A i \in 1 .. Len(m_buckets) :
              i # HomeSlot(key) => m_buckets[i] = pre.buckets[i]
        /\ \A a \in DOMAIN pre.heap : heap[a] = pre.heap[a]

C13_Witness ==
    /\ Returned /\ ret = "true"
    /\ key \notin KeysOf(pre.buckets, pre.heap)
    /\ Len(pre.buckets) >= 2
    /\ Len(Chain(pre.heap, pre.buckets[HomeSlot(key)])) >= 1
    /\ Len(Chain(heap, m_buckets[HomeSlot(key)])) >= 2
    /\ \E i \in 1 .. Len(m_buckets) : i # HomeSlot(key) /\ m_buckets[i] # NULL

\* the owners of node a: slots, predecessor nodes and the local new_node
SlotOwners(a) == {i \in 1 .. Len(m_buckets) : m_buckets[i] = a}
NodeOwners(a) == {b \in DOMAIN heap : heap[b].next = a}
OwnerCount(a) == Cardinality(SlotOwners(a)) + Cardinality(NodeOwners(a))
                 + (IF new_node = a THEN 1 ELSE 0)

NoRepeat(s) == \A i, j \in 1 .. Len(s) : i # j => s[i] # s[j]

\* C14: in every state, also between the statements of insert, every node
\* has at most one owner; when the new node is about to be assigned to the
\* slot, the slot is empty and its former head is the new node's successor;
\* no chain has a cycle and no node is reachable from two handles.
C14_OwnershipForest ==
    /\ \A a \in DOMAIN heap : OwnerCount(a) <= 1
    /\ pc = "assign" =>
          /\ m_buckets[index] = NULL
          /\ new_node # NULL
          /\ heap[new_node].next = pre.buckets[index]
    /\ NoRepeat(Entries(m_buckets, heap) \o Chain(heap, new_node))

C14_Witness ==
    /\ pc = "assign"
    /\ heap[new_node].next # NULL
    /\ Len(Chain(heap, new_node)) >= 2
    /\ m_buckets[index] = NULL
    /\ \E i \in 1 .. Len(m_buckets) : m_buckets[i] # NULL

\* C15: the number of slots is the constructor's argument in every state,
\* whatever m_size / capacity has reached.
C15_CapacityFixed == Len(m_buckets) = initial_buckets

C15_Witness ==
    /\ Returned /\ ret = "true"
    /\ Len(m_buckets) = 1
    /\ m_size = 3
    /\ 4 * m_size > 3 * Len(m_buckets)
====
